---- MODULE Spec2Model ----
(***************************************************************************)
(* Locale-aware routing and content queries of typesafe-i18n-hygraph-nextjs *)
(*                                                                         *)
(*   i18n.ts          the locale registry derived from HygraphLocaleEnum   *)
(*   middleware.ts    getLocale (header negotiation) and middleware        *)
(*   hygraphClient.ts useHygraphClient / makeRequest                       *)
(*   app/[lang]/page.tsx  IndexPage                                        *)
(*                                                                         *)
(* A string is a sequence of one-character strings, so that startsWith,    *)
(* replace and template literals are computed character by character.      *)
(***************************************************************************)
EXTENDS Integers, Sequences, FiniteSets, TLC

VARIABLES
    HygraphLocaleEnum,  \* values of the generated enum (./gql/graphql), in order
    i18n,               \* the exported registry object, NoValue until i18n.ts is evaluated
    pc,                 \* position of the request being served
    request,            \* the NextRequest being served
    response,           \* what middleware returned (or threw)
    getLocaleCalls,     \* invocations of getLocale for the current request
    lang,               \* params.lang handed to IndexPage
    outbound,           \* every GraphQLClient.request call made so far
    invocations,        \* invocations of client.getBlogposts so far
    served,             \* requests received so far
    redirects           \* redirects followed to arrive at the current request

vars == <<HygraphLocaleEnum, i18n, pc, request, response, getLocaleCalls,
          lang, outbound, invocations, served, redirects>>

NoValue == [none |-> TRUE]

(***************************************************************************)
(* Bounds                                                                  *)
(***************************************************************************)
\* number of requests one behaviour serves
MaxRequests == 2
\* length of the generated locale identifiers
MaxIdLen == 4

(***************************************************************************)
(* Strings                                                                 *)
(***************************************************************************)
EmptyStr == << >>

S_en      == <<"e", "n">>
S_pl      == <<"p", "l">>
S_fr      == <<"f", "r">>
S_de      == <<"d", "e">>
S_pl_PL   == <<"p", "l", "_", "P", "L">>
S_plPL    == <<"p", "l", "-", "P", "L">>
S_plpl    == <<"p", "l", "-", "p", "l">>
S_enUS    == <<"e", "n", "-", "U", "S">>
S_en_US   == <<"e", "n", "_", "U", "S">>
S_star    == <<"*">>
S_garbage == <<"e", " ", "n">>
S_english == <<"e", "n", "g", "l", "i", "s", "h">>
S_about   == <<"a", "b", "o", "u", "t">>
S_query   == <<"?", "x", "=", "1">>
Slash     == <<"/">>

LowerLetters == <<"a", "b", "c", "d", "e", "f", "g", "h", "i", "j", "k", "l", "m",
                  "n", "o", "p", "q", "r", "s", "t", "u", "v", "w", "x", "y", "z">>
UpperLetters == <<"A", "B", "C", "D", "E", "F", "G", "H", "I", "J", "K", "L", "M",
                  "N", "O", "P", "Q", "R", "S", "T", "U", "V", "W", "X", "Y", "Z">>

Range(s) == {s[i] : i \in 1..Len(s)}

IsLetter(c) == c \in Range(LowerLetters) \cup Range(UpperLetters)

LetterIndex(c) ==
    CHOOSE i \in 1..Len(LowerLetters) : LowerLetters[i] = c \/ UpperLetters[i] = c

ToLowerChar(c) == IF IsLetter(c) THEN LowerLetters[LetterIndex(c)] ELSE c
ToUpperChar(c) == IF IsLetter(c) THEN UpperLetters[LetterIndex(c)] ELSE c

ToLowerCase(s) == [i \in 1..Len(s) |-> ToLowerChar(s[i])]
ToUpperCase(s) == [i \in 1..Len(s) |-> ToUpperChar(s[i])]

\* String.prototype.startsWith
StartsWith(s, prefix) ==
    /\ Len(prefix) <= Len(s)
    /\ SubSeq(s, 1, Len(prefix)) = prefix

\* String.prototype.indexOf for a one-character pattern, 0 when absent
IndexOf(s, c) ==
    IF \E i \in 1..Len(s) : s[i] = c
    THEN CHOOSE i \in 1..Len(s) : s[i] = c /\ \A j \in 1..(i - 1) : s[j] # c
    ELSE 0

\* String.prototype.lastIndexOf for a one-character pattern, 0 when absent
LastIndexOf(s, c) ==
    IF \E i \in 1..Len(s) : s[i] = c
    THEN CHOOSE i \in 1..Len(s) : s[i] = c /\ \A j \in (i + 1)..Len(s) : s[j] # c
    ELSE 0

\* String.prototype.replace with a string pattern: the FIRST occurrence only
Replace(s, pattern, replacement) ==
    LET i == IndexOf(s, pattern)
    IN  IF i = 0 THEN s
        ELSE SubSeq(s, 1, i - 1) \o <<replacement>> \o SubSeq(s, i + 1, Len(s))

\* String.prototype.split for a one-character separator
RECURSIVE Split(_, _)
Split(s, sep) ==
    LET i == IndexOf(s, sep)
    IN  IF i = 0 THEN <<s>>
        ELSE <<SubSeq(s, 1, i - 1)>> \o Split(SubSeq(s, i + 1, Len(s)), sep)

(***************************************************************************)
(* i18n.ts: the locale registry                                            *)
(***************************************************************************)
\* hygraphLocale.replace("_", "-")
toStandard(hygraphLocale) == Replace(hygraphLocale, "_", "-")

\* Object.values(HygraphLocaleEnum).map((hygraphLocale) => ...)
locales(enum) == [i \in 1..Len(enum) |-> toStandard(enum[i])]

\* const defaultLocale: Locale = "en"
defaultLocale == S_en

\* export const i18n = { locales, defaultLocale }; nothing in the module throws
i18nModule(enum) == [locales |-> locales(enum), defaultLocale |-> defaultLocale]

(***************************************************************************)
(* negotiator: new Negotiator({ headers }).languages()                     *)
(*                                                                         *)
(* An Accept-Language value is the sequence of its comma-separated parts,  *)
(* each part [range, q] with q in tenths (10 when no ;q= is given); the    *)
(* header object lacks the key when the request carries no such header.    *)
(***************************************************************************)
Absent == [present |-> FALSE, parts |-> << >>]
Header(parts) == [present |-> TRUE, parts |-> parts]

\* parseLanguage: the part must be a run of non-blank characters
parseLanguage(part) ==
    /\ part.range # EmptyStr
    /\ " " \notin Range(part.range)

\* isQuality
isQuality(part) == part.q > 0

\* parseAcceptLanguage: the parts that parse, each with its index i
parseAcceptLanguage(accept) ==
    SelectSeq([i \in 1..Len(accept) |->
                  [range |-> accept[i].range, q |-> accept[i].q, i |-> i]],
              parseLanguage)

\* compareSpecs on parsed parts: q descending, then index ascending
Precedes(a, b) == a.q > b.q \/ (a.q = b.q /\ a.i < b.i)

\* Array.prototype.sort by compareSpecs
SortSpecs(specs) ==
    [k \in 1..Len(specs) |->
        CHOOSE s \in Range(specs) :
            Cardinality({t \in Range(specs) : Precedes(t, s)}) = k - 1]

\* preferredLanguages(accept, undefined): "no header = *"
languages(acceptLanguage) ==
    LET accept == IF ~acceptLanguage.present
                  THEN <<[range |-> S_star, q |-> 10]>>
                  ELSE acceptLanguage.parts
        sorted == SortSpecs(SelectSeq(parseAcceptLanguage(accept), isQuality))
    IN  [k \in 1..Len(sorted) |-> sorted[k].range]

(***************************************************************************)
(* @formatjs/intl-localematcher: match(requested, available, default)      *)
(*                                                                         *)
(* Language tags are restricted to language, script and region subtags,    *)
(* the only ones the requests and enumerations drawn below contain.        *)
(***************************************************************************)
AllLetters(s) == \A i \in 1..Len(s) : IsLetter(s[i])

IsLanguageSubtag(s) == Len(s) \in {2, 3, 5, 6, 7, 8} /\ AllLetters(s)
IsScriptSubtag(s)   == Len(s) = 4 /\ AllLetters(s)
IsRegionSubtag(s)   == Len(s) = 2 /\ AllLetters(s)

\* IsStructurallyValidLanguageTag: language ["-" script] ["-" region]
IsStructurallyValidLanguageTag(tag) ==
    LET subtags == Split(tag, "-")
    IN  /\ IsLanguageSubtag(subtags[1])
        /\ \/ Len(subtags) = 1
           \/ Len(subtags) = 2
              /\ (IsScriptSubtag(subtags[2]) \/ IsRegionSubtag(subtags[2]))
           \/ Len(subtags) = 3
              /\ IsScriptSubtag(subtags[2])
              /\ IsRegionSubtag(subtags[3])

\* a language tag taken apart; an absent subtag is the empty string
ParseTag(tag) ==
    LET subtags == Split(tag, "-")
        second  == IF Len(subtags) >= 2 THEN subtags[2] ELSE EmptyStr
        third   == IF Len(subtags) >= 3 THEN subtags[3] ELSE EmptyStr
    IN  [language |-> subtags[1],
         script   |-> IF IsScriptSubtag(second) THEN second ELSE EmptyStr,
         region   |-> IF IsRegionSubtag(second) THEN second ELSE third]

TagToString(t) ==
    t.language
        \o (IF t.script = EmptyStr THEN EmptyStr ELSE <<"-">> \o t.script)
        \o (IF t.region = EmptyStr THEN EmptyStr ELSE <<"-">> \o t.region)

TitleCase(s) ==
    IF s = EmptyStr THEN s
    ELSE <<ToUpperChar(s[1])>> \o ToLowerCase(SubSeq(s, 2, Len(s)))

\* CanonicalizeUnicodeLocaleId: the case of each subtag
CanonicalizeTag(tag) ==
    LET t == ParseTag(tag)
    IN  TagToString([language |-> ToLowerCase(t.language),
                     script   |-> TitleCase(t.script),
                     region   |-> ToUpperCase(t.region)])

S_Latn == <<"L", "a", "t", "n">>
S_US   == <<"U", "S">>
S_PL   == <<"P", "L">>
S_FR   == <<"F", "R">>
S_DE   == <<"D", "E">>

\* CLDR likely subtags of the languages used here
LikelySubtags(language) ==
    CASE language = S_en -> [script |-> S_Latn, region |-> S_US]
      [] language = S_pl -> [script |-> S_Latn, region |-> S_PL]
      [] language = S_fr -> [script |-> S_Latn, region |-> S_FR]
      [] language = S_de -> [script |-> S_Latn, region |-> S_DE]
      [] OTHER           -> [script |-> EmptyStr, region |-> EmptyStr]

\* Intl.Locale.prototype.maximize
MaximizeTag(t) ==
    LET likely == LikelySubtags(t.language)
    IN  [language |-> t.language,
         script   |-> IF t.script = EmptyStr THEN likely.script ELSE t.script,
         region   |-> IF t.region = EmptyStr THEN likely.region ELSE t.region]

\* Intl.Locale.prototype.minimize (remove likely subtags)
MinimizeTag(t) ==
    LET max        == MaximizeTag(t)
        onlyLang   == [language |-> t.language, script |-> EmptyStr, region |-> EmptyStr]
        langRegion == [language |-> t.language, script |-> EmptyStr, region |-> max.region]
        langScript == [language |-> t.language, script |-> max.script, region |-> EmptyStr]
    IN  IF MaximizeTag(onlyLang) = max THEN onlyLang
        ELSE IF MaximizeTag(langRegion) = max THEN langRegion
        ELSE IF MaximizeTag(langScript) = max THEN langScript
        ELSE max

maximize(locale) == TagToString(MaximizeTag(ParseTag(locale)))
minimize(locale) == TagToString(MinimizeTag(ParseTag(locale)))

\* BestAvailableLocale: drop trailing subtags until the candidate is available
RECURSIVE BestAvailableLocale(_, _)
BestAvailableLocale(availableLocales, candidate) ==
    IF candidate \in availableLocales THEN [found |-> TRUE, locale |-> candidate]
    ELSE LET pos == LastIndexOf(candidate, "-")
         IN  IF pos = 0 THEN [found |-> FALSE, locale |-> EmptyStr]
             ELSE BestAvailableLocale(availableLocales, SubSeq(candidate, 1, pos - 1))

\* the available locale a found tag stands for:
\* availableLocaleMap || canonicalizedLocaleMap || minimizedAvailableLocaleMap
AvailableFor(available, foundLocale) ==
    LET idx == 1..Len(available)
    IN  IF \E i \in idx : available[i] = foundLocale THEN foundLocale
        ELSE IF \E i \in idx : CanonicalizeTag(available[i]) = foundLocale
        THEN available[CHOOSE i \in idx :
                /\ CanonicalizeTag(available[i]) = foundLocale
                /\ \A j \in idx : j > i => CanonicalizeTag(available[j]) # foundLocale]
        ELSE available[CHOOSE i \in idx :
                /\ minimize(available[i]) = foundLocale
                /\ \A j \in idx : j > i => minimize(available[j]) # foundLocale]

\* what one requested locale finds among the available ones
FindLocale(available, requested) ==
    LET avail     == Range(available)
        minimized == avail \cup {minimize(a) : a \in avail}
                           \cup {CanonicalizeTag(a) : a \in avail}
    IN  IF requested \in minimized
        THEN [found |-> TRUE, locale |-> requested]
        ELSE IF minimize(requested) \in minimized
        THEN [found |-> TRUE, locale |-> minimize(requested)]
        ELSE BestAvailableLocale(minimized, maximize(requested))

\* BestFitMatcher: the first requested locale that finds one, else the default
RECURSIVE BestFitMatcher(_, _, _)
BestFitMatcher(available, requestedLocales, default) ==
    IF requestedLocales = << >> THEN default
    ELSE LET r == FindLocale(available, Head(requestedLocales))
         IN  IF r.found THEN AvailableFor(available, r.locale)
             ELSE BestFitMatcher(available, Tail(requestedLocales), default)

\* match: CanonicalizeLocaleList is Intl.getCanonicalLocales, which throws a
\* RangeError on a tag that is not a structurally valid language tag ("*" is none)
match(requestedLocales, available, default) ==
    IF \E i \in 1..Len(requestedLocales) :
           ~IsStructurallyValidLanguageTag(requestedLocales[i])
    THEN [threw |-> TRUE, locale |-> EmptyStr]
    ELSE [threw |-> FALSE,
          locale |-> BestFitMatcher(available,
                        [i \in 1..Len(requestedLocales) |->
                            CanonicalizeTag(requestedLocales[i])],
                        default)]

(***************************************************************************)
(* middleware.ts                                                           *)
(***************************************************************************)
\* getLocale(request)
getLocale(req) ==
    match(languages(req.acceptLanguage), i18n.locales, i18n.defaultLocale)

\* the prefix test without the segment boundary: startsWith(`/${locale}`)
pathnameIsMissingLocale_NoBoundary(pathname) ==
    \A i \in 1..Len(i18n.locales) :
        ~StartsWith(pathname, Slash \o i18n.locales[i])

\* pathnameIsMissingLocale: i18n.locales.every((locale) => ...)
pathnameIsMissingLocale(pathname) ==
    \A i \in 1..Len(i18n.locales) :
        LET locale == i18n.locales[i]
        IN  /\ ~StartsWith(pathname, Slash \o locale \o Slash)
            /\ pathname # Slash \o locale

\* new URL(relative, request.url) for a relative reference that starts with "/":
\* the path and query are the relative reference's own, nothing of the base's
URL(relative) ==
    LET q == IndexOf(relative, "?")
    IN  IF q = 0 THEN [pathname |-> relative, search |-> EmptyStr]
        ELSE [pathname |-> SubSeq(relative, 1, q - 1),
              search   |-> SubSeq(relative, q, Len(relative))]

\* new URL(`/${locale}/${pathname}`, request.url)
redirectUrl(locale, pathname) == URL(Slash \o locale \o Slash \o pathname)

NoResponse == [kind |-> "none", pathname |-> EmptyStr, search |-> EmptyStr, locale |-> EmptyStr]

\* what middleware(request) returns: undefined (the request continues), a
\* redirect, or the RangeError getLocale let through
middlewareResult(req) ==
    IF ~pathnameIsMissingLocale(req.pathname)
    THEN [kind |-> "next", pathname |-> EmptyStr, search |-> EmptyStr, locale |-> EmptyStr]
    ELSE LET r == getLocale(req)
         IN  IF r.threw
             THEN [kind |-> "error", pathname |-> EmptyStr, search |-> EmptyStr,
                   locale |-> EmptyStr]
             ELSE LET url == redirectUrl(r.locale, req.pathname)
                  IN  [kind |-> "redirect", pathname |-> url.pathname,
                       search |-> url.search, locale |-> r.locale]

(***************************************************************************)
(* hygraphClient.ts                                                        *)
(***************************************************************************)
\* the conversion applied in the registry's direction instead of its inverse
useHygraphClient_SameDirection(inputLocale) == [locale |-> Replace(inputLocale, "_", "-")]

\* const locale = inputLocale.replace("-", "_")
useHygraphClient(inputLocale) == [locale |-> Replace(inputLocale, "-", "_")]

\* a request that also asks for the default locale as a fallback
makeRequest_WithFallback(client, document) ==
    <<[document |-> document, variables |-> [locales |-> <<client.locale, defaultLocale>>]]>>

\* makeRequest(document)(init): hygraphClient(init).request(document, { locales: [locale] })
makeRequest(client, document) ==
    <<[document |-> document, variables |-> [locales |-> <<client.locale>>]]>>

(***************************************************************************)
(* Inputs                                                                  *)
(***************************************************************************)
\* enumerations the code generation step may hand to i18n.ts
\* (the repository's own first: type HygraphLocale = "en" | "pl_PL")
EnumCandidates ==
    << <<S_en, S_pl_PL>>, <<S_pl_PL, S_en>>, <<S_en>>, <<S_en, S_pl_PL, S_de>>,
       << >>, <<S_pl_PL>>, <<S_pl_PL, S_de>> >>

Segments == {S_en, S_plPL, S_de, S_pl, S_english, S_about, S_pl_PL}

Pathnames ==
    {Slash, Slash \o S_en \o Slash}
        \cup {Slash \o seg : seg \in Segments}
        \cup {Slash \o seg \o Slash \o S_about : seg \in {S_en, S_plPL, S_de, S_english}}

Searches == {EmptyStr, S_query}

Part(range, q) == [range |-> range, q |-> q]

AcceptLanguages ==
    { Absent,
      Header(<<Part(EmptyStr, 10)>>),                   \* ""
      Header(<<Part(S_garbage, 10)>>),                  \* "e n"
      Header(<<Part(S_en_US, 10)>>),                    \* "en_US"
      Header(<<Part(S_fr, 9), Part(S_en, 8)>>),         \* "fr;q=0.9,en;q=0.8"
      Header(<<Part(S_plPL, 10), Part(S_en, 5)>>),      \* "pl-PL,en;q=0.5"
      Header(<<Part(S_en, 5), Part(S_plPL, 10)>>),      \* "en;q=0.5,pl-PL"
      Header(<<Part(S_fr, 10)>>),                       \* "fr"
      Header(<<Part(S_star, 10)>>),                     \* "*"
      Header(<<Part(S_fr, 10), Part(S_star, 1)>>),      \* "fr,*;q=0.1"
      Header(<<Part(S_enUS, 10), Part(S_pl, 9)>>),      \* "en-US,pl;q=0.9"
      Header(<<Part(S_plpl, 10)>>),                     \* "pl-pl"
      Header(<<Part(S_plPL, 0)>>),                      \* "pl-PL;q=0"
      Header(<<Part(S_de, 10), Part(S_en, 9)>>) }       \* "de,en;q=0.9"

Requests ==
    [pathname : Pathnames, search : Searches, acceptLanguage : AcceptLanguages]

NoRequest == [pathname |-> EmptyStr, search |-> EmptyStr, acceptLanguage |-> Absent]

(***************************************************************************)
(* The state machine                                                       *)
(***************************************************************************)
Init ==
    /\ \E k \in 1..Len(EnumCandidates) : HygraphLocaleEnum = EnumCandidates[k]
    /\ i18n = NoValue
    /\ pc = "boot"
    /\ request = NoRequest
    /\ response = NoResponse
    /\ getLocaleCalls = 0
    /\ lang = NoValue
    /\ outbound = << >>
    /\ invocations = 0
    /\ served = 0
    /\ redirects = 0

\* evaluation of the module i18n.ts, when the server starts
LoadI18n ==
    /\ pc = "boot"
    /\ i18n' = i18nModule(HygraphLocaleEnum)
    /\ pc' = "idle"
    /\ UNCHANGED <<HygraphLocaleEnum, request, response, getLocaleCalls, lang,
                   outbound, invocations, served, redirects>>

\* a request reaches the server
Receive(req) ==
    /\ pc \in {"idle", "done"}
    /\ served < MaxRequests
    /\ request' = req
    /\ response' = NoResponse
    /\ getLocaleCalls' = 0
    /\ lang' = NoValue
    /\ served' = served + 1
    /\ redirects' = 0
    /\ pc' = "middleware"
    /\ UNCHANGED <<HygraphLocaleEnum, i18n, outbound, invocations>>

\* the client follows the redirect: a request for the target, same headers
FollowRedirect ==
    /\ pc = "done"
    /\ response.kind = "redirect"
    /\ served < MaxRequests
    /\ request' = [pathname |-> response.pathname, search |-> response.search,
                   acceptLanguage |-> request.acceptLanguage]
    /\ response' = NoResponse
    /\ getLocaleCalls' = 0
    /\ lang' = NoValue
    /\ served' = served + 1
    /\ redirects' = redirects + 1
    /\ pc' = "middleware"
    /\ UNCHANGED <<HygraphLocaleEnum, i18n, outbound, invocations>>

\* export function middleware(request)
Middleware ==
    /\ pc = "middleware"
    /\ response' = middlewareResult(request)
    /\ getLocaleCalls' = IF pathnameIsMissingLocale(request.pathname)
                         THEN getLocaleCalls + 1 ELSE getLocaleCalls
    /\ pc' = IF response'.kind = "next" THEN "route" ELSE "done"
    /\ UNCHANGED <<HygraphLocaleEnum, i18n, request, lang, outbound, invocations, served,
                   redirects>>

\* the route app/[lang]/page.tsx matches a path of exactly one segment
IsLangRoute(pathname) ==
    /\ Len(pathname) >= 2
    /\ pathname[1] = "/"
    /\ "/" \notin Range(Tail(pathname))

\* export default async function IndexPage({ params: { lang } })
IndexPage ==
    /\ pc = "route"
    /\ IsLangRoute(request.pathname)
    /\ lang' = [none |-> FALSE, value |-> Tail(request.pathname)]
    /\ outbound' = outbound \o makeRequest(useHygraphClient(lang'.value), "getBlogposts")
    /\ invocations' = invocations + 1
    /\ pc' = "done"
    /\ UNCHANGED <<HygraphLocaleEnum, i18n, request, response, getLocaleCalls, served,
                   redirects>>

\* no page of this repository matches the path
NotFound ==
    /\ pc = "route"
    /\ ~IsLangRoute(request.pathname)
    /\ pc' = "done"
    /\ UNCHANGED <<HygraphLocaleEnum, i18n, request, response, getLocaleCalls, lang,
                   outbound, invocations, served, redirects>>

Next ==
    \/ LoadI18n
    \/ \E req \in Requests : Receive(req)
    \/ FollowRedirect
    \/ Middleware
    \/ IndexPage
    \/ NotFound

Spec == Init /\ [][Next]_vars

(***************************************************************************)
(* The conversions on generated identifiers: a one-value enumeration of    *)
(* every source-form identifier up to MaxIdLen, each registered locale     *)
(* requested by its own path                                               *)
(***************************************************************************)
IdAlphabet == {"a", "b", "_"}

SourceIds == UNION {[1..n -> IdAlphabet] : n \in 1..MaxIdLen}

InitConv ==
    /\ HygraphLocaleEnum \in {<<x>> : x \in SourceIds}
    /\ i18n = NoValue
    /\ pc = "boot"
    /\ request = NoRequest
    /\ response = NoResponse
    /\ getLocaleCalls = 0
    /\ lang = NoValue
    /\ outbound = << >>
    /\ invocations = 0
    /\ served = 0
    /\ redirects = 0

ReceiveRegistered ==
    /\ pc # "boot"
    /\ \E i \in 1..Len(i18n.locales) :
          Receive([pathname |-> Slash \o i18n.locales[i], search |-> EmptyStr,
                   acceptLanguage |-> Absent])

NextConv ==
    \/ LoadI18n
    \/ ReceiveRegistered
    \/ Middleware
    \/ IndexPage

SpecConv == InitConv /\ [][NextConv]_vars

(***************************************************************************)
(* Properties                                                              *)
(***************************************************************************)
\* the first path segment: what lies between the leading "/" and the next "/"
FirstSegment(pathname) ==
    LET rest == Tail(pathname)
        i    == IndexOf(rest, "/")
    IN  IF i = 0 THEN rest ELSE SubSeq(rest, 1, i - 1)

HasRegisteredFirstSegment(pathname) ==
    /\ pathname # EmptyStr
    /\ pathname[1] = "/"
    /\ FirstSegment(pathname) \in Range(i18n.locales)

Handled == response.kind # "none"

Last(seq) == seq[Len(seq)]

\* C1: every request middleware handles ends either passed through with
\* getLocale never invoked (its path carries a registered locale) or redirected
\* with getLocale invoked once (it carries none); never in neither outcome.
C1_ExactlyOneOutcome ==
    Handled =>
        IF HasRegisteredFirstSegment(request.pathname)
        THEN response.kind = "next" /\ getLocaleCalls = 0
        ELSE response.kind = "redirect" /\ getLocaleCalls = 1

\* C2: middleware treats a path as locale-prefixed (lets the request through)
\* exactly when its first segment is, character for character, a registered
\* locale: "/english/about" is not prefixed by "en", and every locale counts.
C2_LocalePrefixTest ==
    Handled =>
        (response.kind = "next" <=> HasRegisteredFirstSegment(request.pathname))

C2_Witness ==
    /\ Handled
    /\ request.pathname = Slash \o S_english \o Slash \o S_about
    /\ S_en \in Range(i18n.locales)
    /\ response.kind # "next"

\* C3: the path of a redirect is "/" + locale + the request's path, with no
\* separator added between the two.
C3_RedirectPath ==
    response.kind = "redirect" =>
        response.pathname = Slash \o response.locale \o request.pathname

\* C4: a redirect carries the request's query string unchanged.
C4_QueryPreserved ==
    response.kind = "redirect" => response.search = request.search

Unusable(acceptLanguage) ==
    \/ ~acceptLanguage.present
    \/ \A i \in 1..Len(acceptLanguage.parts) :
          /\ acceptLanguage.parts[i].range # S_star
          /\ ~IsStructurallyValidLanguageTag(acceptLanguage.parts[i].range)

\* C6: with an absent, empty or unparseable Accept-Language header getLocale
\* raises nothing and returns the default, so a request without a locale prefix
\* is still redirected, to the default locale.
C6_DegradesToDefault ==
    (/\ Handled
     /\ ~HasRegisteredFirstSegment(request.pathname)
     /\ Unusable(request.acceptLanguage))
        => response.kind = "redirect" /\ response.locale = i18n.defaultLocale

\* a header whose every part is a language range: a language tag or "*"
WellFormed(acceptLanguage) ==
    /\ acceptLanguage.present
    /\ \A i \in 1..Len(acceptLanguage.parts) :
          \/ acceptLanguage.parts[i].range = S_star
          \/ IsStructurallyValidLanguageTag(acceptLanguage.parts[i].range)

LanguageOf(tag) == ToLowerCase(Split(tag, "-")[1])

\* a language range matches a registered locale
RangeMatches(range, locale) ==
    range = S_star \/ LanguageOf(range) = LanguageOf(locale)

\* the parts of the header by descending weight, as the claim ranks them
RankedParts(acceptLanguage) ==
    LET n  == Len(acceptLanguage.parts)
        ix == [i \in 1..n |-> [range |-> acceptLanguage.parts[i].range,
                               q |-> acceptLanguage.parts[i].q, i |-> i]]
    IN  SortSpecs(ix)

\* the locale the claim expects: that of the highest-weighted range of non-zero
\* weight matching a registered locale, the default when there is none
ExpectedLocale(acceptLanguage, registry) ==
    LET ranked == RankedParts(acceptLanguage)
        hits   == {k \in 1..Len(ranked) :
                     /\ ranked[k].q > 0
                     /\ \E j \in 1..Len(registry.locales) :
                           RangeMatches(ranked[k].range, registry.locales[j])}
    IN  IF hits = {} THEN registry.defaultLocale
        ELSE LET k == CHOOSE k \in hits : \A m \in hits : k <= m
                 j == CHOOSE j \in 1..Len(registry.locales) :
                        /\ RangeMatches(ranked[k].range, registry.locales[j])
                        /\ \A m \in 1..(j - 1) :
                              ~RangeMatches(ranked[k].range, registry.locales[m])
             IN  registry.locales[j]

\* C7: for a well-formed Accept-Language value getLocale returns the registered
\* locale matched by the highest-weighted matching range, the default only when
\* no range of non-zero weight matches.
C7_BestMatch ==
    (/\ Handled
     /\ ~HasRegisteredFirstSegment(request.pathname)
     /\ WellFormed(request.acceptLanguage))
        => /\ response.kind = "redirect"
           /\ response.locale = ExpectedLocale(request.acceptLanguage, i18n)

Count(s, c) == Cardinality({i \in 1..Len(s) : s[i] = c})

\* C8: on identifiers with at most one separator the registry's conversion and
\* the adapter's are inverse to each other, in both orders, and the page of a
\* registered locale queries the content source with the enumeration value the
\* locale was derived from.
C8_RoundTrip ==
    pc # "boot" =>
        /\ \A i \in 1..Len(HygraphLocaleEnum) :
              Count(HygraphLocaleEnum[i], "_") <= 1 =>
                  /\ useHygraphClient(i18n.locales[i]).locale = HygraphLocaleEnum[i]
                  /\ toStandard(useHygraphClient(i18n.locales[i]).locale) = i18n.locales[i]
        /\ (/\ pc = "done"
            /\ response.kind = "next"
            /\ Count(HygraphLocaleEnum[1], "_") <= 1)
               => Last(outbound).variables.locales = <<HygraphLocaleEnum[1]>>

C8_Witness ==
    /\ pc = "done"
    /\ HygraphLocaleEnum = << <<"a", "_", "b">> >>
    /\ i18n.locales = << <<"a", "-", "b">> >>
    /\ Len(outbound) > 0
    /\ Last(outbound).variables.locales = << <<"a", "_", "b">> >>

SourceFormOf(locale) ==
    LET i == IndexOf(locale, "-")
    IN  [k \in 1..Len(locale) |-> IF k = i THEN "_" ELSE locale[k]]

\* C10: every invocation of getBlogposts makes exactly one more outbound query
\* call, whose locales variable is the one-element list holding the source form
\* of the locale given to useHygraphClient.
C10_OneCallOneLocale ==
    [][invocations' # invocations =>
          /\ invocations' = invocations + 1
          /\ Len(outbound') = Len(outbound) + 1
          /\ SubSeq(outbound', 1, Len(outbound)) = outbound
          /\ Last(outbound').variables.locales = <<SourceFormOf(lang'.value)>>]_vars

C10_Witness ==
    /\ invocations = 2
    /\ Len(outbound) = 2
    /\ outbound[1] = outbound[2]
    /\ outbound[2].variables.locales = <<S_pl_PL>>

====
